---- MODULE Spec2Model ----
(***************************************************************************)
(* A state-machine model of example.py, the training script of            *)
(* polygnn_trainer: the stratified train/test split, and for every        *)
(* property group the data preparation, the hyperparameter search         *)
(* (gp_minimize over obj_func), the k-fold ensemble training, the loading *)
(* of the ensemble and its evaluation on the test records.                *)
(*                                                                         *)
(* A dataframe is the set of its index values (record ids); the property  *)
(* of a record is looked up in master_data.  A point of the hyperparameter *)
(* space is named by the order in which the optimizer proposed it: the    *)
(* space is continuous in two of its three dimensions, so two proposals   *)
(* are two points.                                                         *)
(***************************************************************************)
EXTENDS Integers, Sequences, FiniteSets, TLC

\* ------------------------------------------------------------ constants
N_FOLDS == 3
HP_NCALLS == 10
N_FEATURES == 512
OPT_CAPACITY == 2

\* --------------------------------------------------------------- bounds
\* Records of each property in the data set the pipeline runs on.
RecordsPerProp == 4
\* The validation scores train_submodel may return: 1..MaxScore.
MaxScore == 2
\* The predictions a submodel may make for a record: 0..MaxPred.
MaxPred == 1
\* The largest data set the split is tried on.
MaxSplitRecords == 6

Props == {"Ea", "Egc"}

VARIABLES
    master_data,        \* record id -> property (column "prop" of sample.csv)
    PROPERTY_GROUPS,    \* sequence of [name, props]
    train_data,         \* set of record ids
    test_data,          \* set of record ids
    pc,                 \* position of the script
    raised,             \* the exception that ended the process, or NoError
    fs_exists,          \* whether the directory example_models/ exists
    fs,                 \* group name -> [scaler, submodels] under example_models/
    gi,                 \* index in PROPERTY_GROUPS of the group being worked on
    selector_dim,
    group_train_data,
    group_test_data,
    group_fit_data,
    group_val_data,
    scaler_dict,        \* the records the scaling transforms were fitted on
    trials,             \* the optimizer's (x, y) pairs, in order
    n_evals,            \* calls of obj_func made for the group
    opt_obj,            \* the result of gp_minimize
    optimal_hps,
    folds,              \* train_kfold_ensemble: the fold assignment
    fold_i,             \* train_kfold_ensemble: the fold being trained
    sub_log,            \* train_kfold_ensemble: the submodels trained so far
    n_models,           \* model instances constructed by the process
    built_dims,         \* input_dim of every model built for the group
    ensemble,           \* the loaded submodels
    y_hat,              \* eval_ensemble's result, per test record
    evaluated           \* indices of the groups whose evaluation has finished

vars == <<master_data, PROPERTY_GROUPS, train_data, test_data, pc, raised,
          fs_exists, fs, gi, selector_dim, group_train_data, group_test_data,
          group_fit_data, group_val_data, scaler_dict, trials, n_evals,
          opt_obj, optimal_hps, folds, fold_i, sub_log, n_models, built_dims,
          ensemble, y_hat, evaluated>>

\* Everything but the data set, the split, pc and raised.
pipeline_vars == <<PROPERTY_GROUPS, fs_exists, fs, gi, selector_dim,
          group_train_data, group_test_data, group_fit_data, group_val_data,
          scaler_dict, trials, n_evals, opt_obj, optimal_hps, folds, fold_i,
          sub_log, n_models, built_dims, ensemble, y_hat, evaluated>>

NoError == [stage |-> "none", err |-> "none", group |-> 0, fold |-> 0]
NoScaler == [fitted |-> FALSE, fit_on |-> {}]
NoResult == [x |-> 0, fun |-> 0]
NoHps == [point |-> 0, capacity |-> 0]
GroupNames == {"electronic", "g_Ea", "g_Egc"}
EmptyFs == [g \in GroupNames |-> [scaler |-> NoScaler, submodels |-> <<>>]]

\* ------------------------------------------------------------- the split
\* test_size=0.2: the number of test records is ceil(0.2 * n).
n_test_half(n) == (n + 1) \div 2

n_test_of(n) == (n + 4) \div 5

ClassesOf(D, lab) == {lab[r] : r \in D}

ClassRecs(D, lab, c) == {r \in D : lab[r] = c}

\* The allocations of n_draws draws to the classes, in proportion to their
\* counts: the floor of the exact share, and one more for the classes with the
\* largest remainders (ties broken at random).
ApproxMode(D, lab, n_draws) ==
    LET cls == ClassesOf(D, lab)
        n == Cardinality(D)
        cnt(c) == Cardinality(ClassRecs(D, lab, c))
        flo(c) == (cnt(c) * n_draws) \div n
        rem(c) == (cnt(c) * n_draws) % n
    IN  {a \in [cls -> 0..n_draws] :
            /\ \A c \in cls : a[c] \in {flo(c), flo(c) + 1}
            /\ \A c \in cls : a[c] <= cnt(c)
            /\ \A c, d \in cls :
                  (a[c] = flo(c) + 1 /\ a[d] = flo(d)) => rem(c) >= rem(d)
            /\ LET S[k \in SUBSET cls] ==
                      IF k = {} THEN 0
                      ELSE LET c == CHOOSE c \in k : TRUE
                           IN  a[c] + S[k \ {c}]
               IN  S[cls] = n_draws}

\* Whether the stratified split accepts the data: a non-empty training set,
\* at least two members in every class, and as many training and as many test
\* records as there are classes.
SplitAccepts(D, lab) ==
    LET n == Cardinality(D)
        n_test == n_test_of(n)
        n_train == n - n_test
        cls == ClassesOf(D, lab)
    IN  /\ n >= 1
        /\ n_train >= 1
        /\ \A c \in cls : Cardinality(ClassRecs(D, lab, c)) >= 2
        /\ n_train >= Cardinality(cls)
        /\ n_test >= Cardinality(cls)

\* The outcomes of train_test_split(D, test_size=0.2, stratify=prop); none
\* when it raises ValueError.
train_test_split(D, lab) ==
    IF ~SplitAccepts(D, lab) THEN {}
    ELSE LET n_train == Cardinality(D) - n_test_of(Cardinality(D))
             allocs == ApproxMode(D, lab, n_train)
         IN  {[train |-> T, test |-> D \ T] :
                T \in {T \in SUBSET D :
                         \E a \in allocs : \A c \in ClassesOf(D, lab) :
                            Cardinality(T \cap ClassRecs(D, lab, c)) = a[c]}}

\* The process ends with an exception: its memory is gone, the files stay.
Crash(stage, err, g, f) ==
    /\ pc' = "crashed"
    /\ raised' = [stage |-> stage, err |-> err, group |-> g, fold |-> f]

\* Lines 69-74.
TrainTestSplit ==
    /\ pc = "split"
    /\ LET outs == train_test_split(DOMAIN master_data, master_data)
       IN  IF outs = {}
           THEN /\ Crash("split", "ValueError", 0, 0)
                /\ UNCHANGED <<train_data, test_data>>
           ELSE /\ \E o \in outs : train_data' = o.train /\ test_data' = o.test
                /\ pc' = "assert"
                /\ UNCHANGED raised
    /\ UNCHANGED <<master_data, pipeline_vars>>

\* Line 75.
AssertTrainLarger ==
    /\ pc = "assert"
    /\ IF Cardinality(train_data) > Cardinality(test_data)
       THEN pc' = "mkdir" /\ UNCHANGED raised
       ELSE Crash("assert", "AssertionError", 0, 0)
    /\ UNCHANGED <<master_data, train_data, test_data, pipeline_vars>>

BlankPipeline ==
    /\ PROPERTY_GROUPS = <<>>
    /\ fs_exists = FALSE
    /\ fs = EmptyFs
    /\ gi = 0
    /\ selector_dim = 0
    /\ group_train_data = {}
    /\ group_test_data = {}
    /\ group_fit_data = {}
    /\ group_val_data = {}
    /\ scaler_dict = NoScaler
    /\ trials = <<>>
    /\ n_evals = 0
    /\ opt_obj = NoResult
    /\ optimal_hps = NoHps
    /\ folds = <<>>
    /\ fold_i = 0
    /\ sub_log = <<>>
    /\ n_models = 0
    /\ built_dims = {}
    /\ ensemble = {}
    /\ y_hat = [done |-> FALSE, scaler |-> NoScaler, rows |-> <<>>]
    /\ evaluated = {}

\* The script about to split any data set of up to MaxSplitRecords records.
SplitInit ==
    /\ \E n \in 1..MaxSplitRecords : master_data \in [1..n -> Props]
    /\ train_data = {}
    /\ test_data = {}
    /\ pc = "split"
    /\ raised = NoError
    /\ BlankPipeline

SplitNext == TrainTestSplit \/ AssertTrainLarger

SpecSplit == SplitInit /\ [][SplitNext]_vars

\* ----------------------------------------------------------- the pipeline
\* The sample data: RecordsPerProp records of each property.
MasterData ==
    [r \in 1..(2 * RecordsPerProp) |->
        IF r <= RecordsPerProp THEN "Ea" ELSE "Egc"]

\* PROPERTY_GROUPS is a table of the script (there, one group of four
\* properties).  The loop is run over tables of the same shape: one group of
\* two properties, or two groups of one property each.
GroupConfigs ==
    { <<[name |-> "electronic", props |-> {"Ea", "Egc"}]>>,
      <<[name |-> "g_Ea", props |-> {"Ea"}],
        [name |-> "g_Egc", props |-> {"Egc"}]>> }

\* Lines 100-104.
SelectorDimOf(nprops) == IF nprops = 1 THEN 0 ELSE nprops

\* Line 94 and line 106: the group being worked on.
group == PROPERTY_GROUPS[gi]

\* Lines 108-109 and 245-248: the rows whose prop is one of prop_cols.
RowsOf(data, props) == {r \in data : master_data[r] \in props}

\* pt.prepare.prepare_train: fits one scaling transform per property on the
\* rows it is given.
prepare_train(group_data) == [fitted |-> TRUE, fit_on |-> group_data]

\* Lines 140-149 and 189-198: the HpConfig of a point of the space (r_learn,
\* batch_size and dropout_pct follow from the point, capacity is fixed).
HpFrom(x) == [point |-> x, capacity |-> OPT_CAPACITY]

\* Lines 160-164, 218-222 and 239-242: the three places that give a model its
\* input dimension.
obj_input_dim == N_FEATURES + selector_dim

ensemble_input_dim == N_FEATURES + selector_dim

load_input_dim_bare == N_FEATURES

load_input_dim == N_FEATURES + selector_dim

\* Line 185.
n_calls_short == HP_NCALLS - 1

n_calls == HP_NCALLS

\* Line 228.
n_fold == N_FOLDS

\* Line 210: the hyperparameters of the ensemble's trainConfig.
tc_ensemble_hps_default == HpFrom(0)

tc_ensemble_hps == optimal_hps

\* Lines 218-222: each call constructs a new MlpOut; the instance is named by
\* the number of instances constructed so far.
model_constructor_shared(n) == 1

model_constructor(n) == n + 1

\* Line 255.
monte_carlo_on == TRUE

monte_carlo == FALSE

\* gp_minimize: the next point asked of the optimizer.
ask(ts) == Len(ts) + 1

\* np.argmin over the observed scores: the first index holding the minimum.
RECURSIVE ArgMinScan(_, _, _)
ArgMinScan(ys, i, best) ==
    IF i > Len(ys) THEN best
    ELSE ArgMinScan(ys, i + 1, IF ys[i] < ys[best] THEN i ELSE best)

RECURSIVE ArgMinLastScan(_, _, _)
ArgMinLastScan(ys, i, best) ==
    IF i > Len(ys) THEN best
    ELSE ArgMinLastScan(ys, i + 1, IF ys[i] <= ys[best] THEN i ELSE best)

np_argmin_last(ys) == ArgMinLastScan(ys, 2, 1)

np_argmin(ys) == ArgMinScan(ys, 2, 1)

\* What the script does with an exception that leaves train_kfold_ensemble:
\* nothing catches it, the process ends.
after_ensemble_error_swallowed == "load"

after_ensemble_error == "crashed"

\* make_folds: the assignments of the records to k folds, none of them empty.
make_folds(D, k) ==
    {f \in [D -> 1..k] : \A i \in 1..k : \E r \in D : f[r] = i}

RECURSIVE SumSeq(_)
SumSeq(s) == IF s = <<>> THEN 0 ELSE Head(s) + SumSeq(Tail(s))

\* eval_ensemble, for one record: the mean (as sum and count) and the
\* dispersion (as k^2 times the variance) of the values the submodels gave.
Aggregate(preds, used) ==
    LET k == Len(used)
        sq == [i \in 1..k |-> used[i] * used[i]]
    IN  [preds |-> preds, k |-> k, mean_sum |-> SumSeq(used),
         disp |-> k * SumSeq(sq) - SumSeq(used) * SumSeq(used)]

NoEval == [done |-> FALSE, scaler |-> NoScaler, rows |-> <<>>]

\* The values of one group's iteration, before the iteration sets them.
BlankGroupLocals ==
    /\ group_train_data' = {}
    /\ group_test_data' = {}
    /\ group_fit_data' = {}
    /\ group_val_data' = {}
    /\ scaler_dict' = NoScaler
    /\ trials' = <<>>
    /\ n_evals' = 0
    /\ opt_obj' = NoResult
    /\ optimal_hps' = NoHps
    /\ folds' = <<>>
    /\ fold_i' = 0
    /\ sub_log' = <<>>
    /\ built_dims' = {}
    /\ ensemble' = {}
    /\ y_hat' = NoEval

\* The memory of a process that has not yet entered the loop.
BlankMemory ==
    /\ gi' = 0
    /\ selector_dim' = 0
    /\ n_models' = 0
    /\ evaluated' = {}
    /\ BlankGroupLocals

fixed_vars == <<master_data, PROPERTY_GROUPS, train_data, test_data>>

\* An exception nothing catches: the process ends, its files stay.
Die(stage, err, g, f) ==
    /\ Crash(stage, err, g, f)
    /\ BlankMemory

\* The script before line 89.  The split of lines 69-74 is seeded, so it is one
\* fixed outcome of train_test_split; records of one property are
\* interchangeable, so one outcome stands for all of them.
Init ==
    /\ master_data = MasterData
    /\ PROPERTY_GROUPS \in GroupConfigs
    /\ LET o == CHOOSE o \in train_test_split(DOMAIN MasterData, MasterData) : TRUE
       IN  train_data = o.train /\ test_data = o.test
    /\ pc = "mkdir"
    /\ raised = NoError
    /\ fs_exists = FALSE
    /\ fs = EmptyFs
    /\ gi = 0
    /\ selector_dim = 0
    /\ group_train_data = {}
    /\ group_test_data = {}
    /\ group_fit_data = {}
    /\ group_val_data = {}
    /\ scaler_dict = NoScaler
    /\ trials = <<>>
    /\ n_evals = 0
    /\ opt_obj = NoResult
    /\ optimal_hps = NoHps
    /\ folds = <<>>
    /\ fold_i = 0
    /\ sub_log = <<>>
    /\ n_models = 0
    /\ built_dims = {}
    /\ ensemble = {}
    /\ y_hat = NoEval
    /\ evaluated = {}

\* Line 89: mkdir raises FileExistsError when the directory exists.
Mkdir ==
    /\ pc = "mkdir"
    /\ IF fs_exists
       THEN /\ Die("mkdir", "FileExistsError", 0, 0)
            /\ UNCHANGED fs_exists
       ELSE /\ fs_exists' = TRUE
            /\ pc' = "group_head"
            /\ gi' = 1
            /\ UNCHANGED <<raised, selector_dim, n_models, evaluated,
                           group_train_data, group_test_data, group_fit_data,
                           group_val_data, scaler_dict, trials, n_evals,
                           opt_obj, optimal_hps, folds, fold_i, sub_log,
                           built_dims, ensemble, y_hat>>
    /\ UNCHANGED <<fixed_vars, fs>>

\* Lines 93-106, and lines 262-263 when no group is left.
GroupHead ==
    /\ pc = "group_head"
    /\ IF gi > Len(PROPERTY_GROUPS)
       THEN /\ pc' = "done"
            /\ UNCHANGED <<selector_dim, group_train_data, group_test_data,
                           group_fit_data, group_val_data, scaler_dict, trials,
                           n_evals, opt_obj, optimal_hps, folds, fold_i,
                           sub_log, built_dims, ensemble, y_hat>>
       ELSE /\ pc' = "prepare"
            /\ selector_dim' = SelectorDimOf(Cardinality(group.props))
            /\ BlankGroupLocals
    /\ UNCHANGED <<fixed_vars, raised, fs_exists, fs, gi, n_models, evaluated>>

\* Lines 108-121: the scaler is fitted on the group's training and test rows.
PrepareData ==
    /\ pc = "prepare"
    /\ LET tr == RowsOf(train_data, group.props)
           te == RowsOf(test_data, group.props)
           sc == prepare_train(tr \cup te)
       IN  /\ group_train_data' = tr
           /\ group_test_data' = te
           /\ scaler_dict' = sc
           /\ fs' = [fs EXCEPT ![group.name].scaler = sc]
    /\ pc' = "split_fitval"
    /\ UNCHANGED <<fixed_vars, raised, fs_exists, gi, selector_dim,
                   group_fit_data, group_val_data, trials, n_evals, opt_obj,
                   optimal_hps, folds, fold_i, sub_log, n_models, built_dims,
                   ensemble, y_hat, evaluated>>

\* Lines 127-134.
SplitFitVal ==
    /\ pc = "split_fitval"
    /\ LET outs == train_test_split(group_train_data, master_data)
       IN  IF outs = {}
           THEN /\ Die("split_fitval", "ValueError", gi, 0)
                /\ UNCHANGED <<fs_exists, fs>>
           ELSE /\ \E o \in outs :
                      group_fit_data' = o.train /\ group_val_data' = o.test
                /\ pc' = "search"
                /\ UNCHANGED <<raised, fs_exists, fs, gi, selector_dim,
                               group_train_data, group_test_data, scaler_dict,
                               trials, n_evals, opt_obj, optimal_hps, folds,
                               fold_i, sub_log, n_models, built_dims, ensemble,
                               y_hat, evaluated>>
    /\ UNCHANGED fixed_vars

\* gp_minimize's result: x is the point of the first trial with the lowest
\* score, fun its score.
OptimizeResult(ts) ==
    LET b == np_argmin([i \in 1..Len(ts) |-> ts[i].y])
    IN  [x |-> ts[b].x, fun |-> ts[b].y]

\* Lines 182-187 and 139-172: one call of obj_func by gp_minimize, which
\* returns a validation score; the optimizer records the trial, and after the
\* n_calls-th trial gp_minimize returns its result.
TrialReturns ==
    /\ pc = "search"
    /\ Len(trials) < n_calls
    /\ \E y \in 1..MaxScore :
          LET ts == Append(trials, [x |-> ask(trials), y |-> y])
          IN  /\ trials' = ts
              /\ IF Len(ts) >= n_calls
                 THEN opt_obj' = OptimizeResult(ts) /\ pc' = "make_hps"
                 ELSE UNCHANGED <<opt_obj, pc>>
    /\ n_evals' = n_evals + 1
    /\ n_models' = n_models + 1
    /\ built_dims' = built_dims \cup {obj_input_dim}
    /\ UNCHANGED <<fixed_vars, raised, fs_exists, fs, gi, selector_dim,
                   group_train_data, group_test_data, group_fit_data,
                   group_val_data, scaler_dict, optimal_hps, folds,
                   fold_i, sub_log, ensemble, y_hat, evaluated>>

\* Lines 165-171: train_submodel raises; neither obj_func nor gp_minimize
\* catches the exception.
TrialRaises ==
    /\ pc = "search"
    /\ Len(trials) < n_calls
    /\ Die("search", "TrainingDivergedError", gi, 0)
    /\ UNCHANGED <<fixed_vars, fs_exists, fs>>

\* Lines 189-215: optimal_hps from opt_obj.x; the fit and validation frames
\* are deleted, and nothing reads the optimizer's trials any more.
MakeOptimalHps ==
    /\ pc = "make_hps"
    /\ optimal_hps' = HpFrom(opt_obj.x)
    /\ group_fit_data' = {}
    /\ group_val_data' = {}
    /\ trials' = <<>>
    /\ pc' = "ensemble"
    /\ UNCHANGED <<fixed_vars, raised, fs_exists, fs, gi, selector_dim,
                   group_train_data, group_test_data, scaler_dict, n_evals,
                   opt_obj, folds, fold_i, sub_log, n_models, built_dims,
                   ensemble, y_hat, evaluated>>

\* Line 216: train_kfold_ensemble assigns the training rows to n_fold folds.
EnsembleStart ==
    /\ pc = "ensemble"
    /\ LET fa == make_folds(group_train_data, n_fold)
       IN  IF fa = {}
           THEN /\ Die("ensemble", "InsufficientDataError", gi, 0)
                /\ UNCHANGED <<fs_exists, fs>>
           ELSE /\ \E f \in fa : folds' = f
                /\ fold_i' = 1
                /\ sub_log' = <<>>
                /\ pc' = "fold"
                /\ UNCHANGED <<raised, fs_exists, fs, gi, selector_dim,
                               group_train_data, group_test_data,
                               group_fit_data, group_val_data, scaler_dict,
                               trials, n_evals, opt_obj, optimal_hps, n_models,
                               built_dims, ensemble, y_hat, evaluated>>
    /\ UNCHANGED fixed_vars

\* The artifact of fold i written under the group's directory (of its content,
\* the fold index and the input dimension of the model).
Persist(subs, i, a) ==
    IF i <= Len(subs) THEN [subs EXCEPT ![i] = a] ELSE Append(subs, a)

\* train_kfold_ensemble, one fold: a model from model_constructor is trained
\* on the other folds, validated on its own fold, and persisted.
TrainFoldReturns ==
    /\ pc = "fold"
    /\ fold_i <= n_fold
    /\ LET m == model_constructor(n_models)
           sub == [fold |-> fold_i, model |-> m,
                   input_dim |-> ensemble_input_dim, hps |-> tc_ensemble_hps,
                   train |-> {r \in DOMAIN folds : folds[r] # fold_i},
                   val |-> {r \in DOMAIN folds : folds[r] = fold_i},
                   scaler |-> scaler_dict]
       IN  /\ sub_log' = Append(sub_log, sub)
           /\ fs' = [fs EXCEPT ![group.name].submodels =
                        Persist(@, fold_i, [fold |-> fold_i,
                                            input_dim |-> sub.input_dim])]
           /\ built_dims' = built_dims \cup {sub.input_dim}
    /\ n_models' = n_models + 1
    /\ fold_i' = fold_i + 1
    /\ UNCHANGED <<fixed_vars, pc, raised, fs_exists, gi, selector_dim,
                   group_train_data, group_test_data, group_fit_data,
                   group_val_data, scaler_dict, trials, n_evals, opt_obj,
                   optimal_hps, folds, ensemble, y_hat, evaluated>>

\* train_kfold_ensemble, one fold: train_submodel raises and the exception
\* leaves train_kfold_ensemble; the folds persisted before stay on disk.
TrainFoldRaises ==
    /\ pc = "fold"
    /\ fold_i <= n_fold
    /\ IF after_ensemble_error = "crashed"
       THEN Die("ensemble", "TrainingDivergedError", gi, fold_i)
       ELSE /\ pc' = after_ensemble_error
            /\ folds' = <<>>
            /\ fold_i' = 0
            /\ sub_log' = <<>>
            /\ UNCHANGED <<raised, gi, selector_dim, group_train_data,
                           group_test_data, group_fit_data, group_val_data,
                           scaler_dict, trials, n_evals, opt_obj, optimal_hps,
                           n_models, built_dims, ensemble, y_hat, evaluated>>
    /\ UNCHANGED <<fixed_vars, fs_exists, fs>>

\* train_kfold_ensemble returns after its last fold.
EnsembleReturns ==
    /\ pc = "fold"
    /\ fold_i > n_fold
    /\ folds' = <<>>
    /\ fold_i' = 0
    /\ sub_log' = <<>>
    /\ pc' = "load"
    /\ UNCHANGED <<fixed_vars, raised, fs_exists, fs, gi, selector_dim,
                   group_train_data, group_test_data, group_fit_data,
                   group_val_data, scaler_dict, trials, n_evals, opt_obj,
                   optimal_hps, n_models, built_dims, ensemble, y_hat,
                   evaluated>>

\* Lines 235-243: one model per artifact under the group's directory.
LoadEnsemble ==
    /\ pc = "load"
    /\ LET subs == fs[group.name].submodels
       IN  /\ ensemble' = {[fold |-> subs[i].fold,
                            input_dim |-> load_input_dim] : i \in DOMAIN subs}
           /\ n_models' = n_models + Len(subs)
    /\ built_dims' = built_dims \cup {load_input_dim}
    /\ pc' = "eval"
    /\ UNCHANGED <<fixed_vars, raised, fs_exists, fs, gi, selector_dim,
                   group_train_data, group_test_data, group_fit_data,
                   group_val_data, scaler_dict, trials, n_evals, opt_obj,
                   optimal_hps, folds, fold_i, sub_log, y_hat, evaluated>>

\* Lines 245-256: every loaded submodel predicts every test row of the group;
\* with monte_carlo each prediction is perturbed before it is aggregated.
EvalEnsemble ==
    /\ pc = "eval"
    /\ LET te == RowsOf(test_data, group.props)
           ks == {s.fold : s \in ensemble}
           k == Cardinality(ks)
           ord == [i \in 1..k |->
                     CHOOSE f \in ks : Cardinality({g \in ks : g < f}) = i - 1]
           noises == IF monte_carlo THEN [ks -> [te -> 0..1]]
                     ELSE {[f \in ks |-> [r \in te |-> 0]]}
       IN  /\ group_test_data' = te
           /\ \E p \in [ks -> [te -> 0..MaxPred]] : \E z \in noises :
                 y_hat' = [done |-> TRUE,
                           scaler |-> fs[group.name].scaler,
                           rows |-> [r \in te |->
                              Aggregate([i \in 1..k |-> p[ord[i]][r]],
                                        [i \in 1..k |-> p[ord[i]][r] + z[ord[i]][r]])]]
    /\ pc' = "metrics"
    /\ UNCHANGED <<fixed_vars, raised, fs_exists, fs, gi, selector_dim,
                   group_train_data, group_fit_data, group_val_data,
                   scaler_dict, trials, n_evals, opt_obj, optimal_hps, folds,
                   fold_i, sub_log, n_models, built_dims, ensemble, evaluated>>

\* Lines 257-260: the metrics are printed and the loop goes to the next group.
PrintMetrics ==
    /\ pc = "metrics"
    /\ evaluated' = evaluated \cup {gi}
    /\ gi' = gi + 1
    /\ pc' = "group_head"
    /\ UNCHANGED <<fixed_vars, raised, fs_exists, fs, selector_dim,
                   group_train_data, group_test_data, group_fit_data,
                   group_val_data, scaler_dict, trials, n_evals, opt_obj,
                   optimal_hps, folds, fold_i, sub_log, n_models, built_dims,
                   ensemble, y_hat>>

\* The script is run again: a new process over the files the last one left.
\* Lines 52-75 give the same split again (the seed and the data are the same).
Rerun ==
    /\ pc \in {"crashed", "done"}
    /\ pc' = "mkdir"
    /\ raised' = NoError
    /\ BlankMemory
    /\ UNCHANGED <<fixed_vars, fs_exists, fs>>

Next ==
    \/ Mkdir
    \/ GroupHead
    \/ PrepareData
    \/ SplitFitVal
    \/ TrialReturns
    \/ TrialRaises
    \/ MakeOptimalHps
    \/ EnsembleStart
    \/ TrainFoldReturns
    \/ TrainFoldRaises
    \/ EnsembleReturns
    \/ LoadEnsemble
    \/ EvalEnsemble
    \/ PrintMetrics
    \/ Rerun

Spec == Init /\ [][Next]_vars

InGroup ==
    pc \in {"prepare", "split_fitval", "search", "make_hps", "ensemble",
            "fold", "load", "eval", "metrics"}

\* C1: the scaler_dict is fitted on records of the training split only (no
\* record of the test split or of the validation split), and inference uses
\* the same scaler_dict.
C1_ScalerFitOnTrainOnly ==
    /\ scaler_dict.fit_on \cap (test_data \cup group_val_data) = {}
    /\ y_hat.done => y_hat.scaler = scaler_dict

\* C2: a training failure raised by the objective of a search trial does not
\* abort the search.
C2_SearchSurvivesFailure ==
    ~(pc = "crashed" /\ raised.stage = "search"
                     /\ raised.err = "TrainingDivergedError")

\* C3: the result of the search is the point of a recorded trial whose score
\* no other trial's score is below, every earlier trial's score is above it,
\* and optimal_hps is built from that point.
C3_BestIsEarliestLowest ==
    /\ pc = "make_hps" =>
          \E i \in 1..Len(trials) :
             /\ opt_obj.x = trials[i].x
             /\ opt_obj.fun = trials[i].y
             /\ \A j \in 1..Len(trials) : trials[j].y >= trials[i].y
             /\ \A j \in 1..(i - 1) : trials[j].y > trials[i].y
    /\ pc \in {"ensemble", "fold", "load", "eval", "metrics"} =>
          optimal_hps.point = opt_obj.x

\* The search returned a point that is neither the first nor the last of two
\* trials sharing the lowest score.
C3_Witness ==
    /\ pc = "make_hps"
    /\ trials[1].y = 2
    /\ trials[2].y = 1
    /\ trials[HP_NCALLS].y = 1
    /\ opt_obj.x = 2

\* C4: the search evaluates the objective HP_NCALLS times, one recorded trial
\* per evaluation, before it returns its result.
C4_ExactlyNCalls ==
    /\ n_evals <= HP_NCALLS
    /\ pc = "search" => (Len(trials) = n_evals /\ opt_obj = NoResult)
    /\ pc = "make_hps" => Len(trials) = HP_NCALLS
    /\ opt_obj # NoResult => n_evals = HP_NCALLS

\* The search has returned after HP_NCALLS evaluations.
C4_Witness ==
    /\ pc = "make_hps"
    /\ n_evals = HP_NCALLS
    /\ opt_obj # NoResult

\* C5: a fold that fails during train_kfold_ensemble ends the run in failure
\* before load_ensemble and eval_ensemble; the artifacts of the earlier folds
\* are never loaded, and every ensemble loaded or evaluated has N_FOLDS
\* submodels.
C5_NoPartialEnsemble ==
    /\ raised.stage = "ensemble" =>
          (pc = "crashed" /\ ensemble = {} /\ ~y_hat.done)
    /\ ensemble # {} => Cardinality(ensemble) = N_FOLDS
    /\ pc \in {"eval", "metrics"} => Cardinality(ensemble) = N_FOLDS
    /\ y_hat.done => \A r \in DOMAIN y_hat.rows : y_hat.rows[r].k = N_FOLDS
    /\ \A g \in GroupNames :
          (Len(fs[g].submodels) \in 1..(N_FOLDS - 1)) =>
             (pc \in {"crashed", "mkdir"} \/ (pc = "fold" /\ group.name = g))

\* The second fold failed: the run has ended, the first fold's artifact is on
\* disk and nothing was loaded.
C5_Witness ==
    /\ pc = "crashed"
    /\ raised.stage = "ensemble"
    /\ raised.fold = 2
    /\ \E g \in GroupNames : Len(fs[g].submodels) = 1
    /\ ensemble = {}

\* C6: train_kfold_ensemble trains one submodel per fold, each from a model
\* instance of its own: the validation sets are non-empty and pairwise
\* disjoint, each submodel is trained on exactly the training rows outside
\* its validation set, and after the last fold the N_FOLDS validation sets
\* cover the training rows.
C6_FoldsPartition ==
    pc = "fold" =>
        /\ Len(sub_log) = fold_i - 1
        /\ Len(sub_log) <= N_FOLDS
        /\ \A i \in DOMAIN sub_log :
              /\ sub_log[i].fold = i
              /\ sub_log[i].val # {}
              /\ sub_log[i].val \cap sub_log[i].train = {}
              /\ sub_log[i].val \cup sub_log[i].train = group_train_data
        /\ \A i, j \in DOMAIN sub_log :
              i # j => /\ sub_log[i].val \cap sub_log[j].val = {}
                       /\ sub_log[i].model # sub_log[j].model
        /\ fold_i > N_FOLDS =>
              /\ Len(sub_log) = N_FOLDS
              /\ \A r \in group_train_data :
                    Cardinality({i \in DOMAIN sub_log : r \in sub_log[i].val}) = 1

\* All folds are trained and one validation set holds more than one row.
C6_Witness ==
    /\ pc = "fold"
    /\ fold_i = N_FOLDS + 1
    /\ Len(sub_log) = N_FOLDS
    /\ \E i \in DOMAIN sub_log : Cardinality(sub_log[i].val) > 1

\* C7: in every group the data is prepared before the search, no fold is
\* trained or persisted before the search has run all its trials, every fold
\* is trained under the HpConfig of the search's result, evaluation starts
\* after all folds are persisted and loaded, and a group starts after the
\* groups before it have finished evaluation.
C7_StageOrder ==
    InGroup =>
        /\ pc \in {"split_fitval", "search", "make_hps", "ensemble", "fold"} =>
              scaler_dict.fitted
        /\ pc \in {"prepare", "split_fitval", "search", "make_hps", "ensemble"} =>
              (sub_log = <<>> /\ Len(fs[group.name].submodels) = 0)
        /\ pc \in {"prepare", "split_fitval", "search"} => opt_obj = NoResult
        /\ pc = "fold" =>
              (n_evals = HP_NCALLS /\ opt_obj # NoResult)
        /\ \A i \in DOMAIN sub_log : sub_log[i].hps = HpFrom(opt_obj.x)
        /\ pc \in {"load", "eval", "metrics"} =>
              Len(fs[group.name].submodels) = N_FOLDS
        /\ pc \in {"eval", "metrics"} => ensemble # {}
        /\ y_hat.done => pc = "metrics"
        /\ \A j \in 1..(gi - 1) :
              /\ j \in evaluated
              /\ Len(fs[PROPERTY_GROUPS[j].name].submodels) = N_FOLDS
        /\ gi \notin evaluated

\* The second group is being trained under its search's result, after the
\* first group's evaluation.
C7_Witness ==
    /\ pc = "fold"
    /\ gi = 2
    /\ Len(sub_log) = 2
    /\ opt_obj.x = 3
    /\ 1 \in evaluated

\* C8: with monte_carlo disabled, the dispersion of a record is zero when all
\* submodels predict the same value for it and positive when two of them
\* differ, and the mean is the sum of the N_FOLDS predictions over N_FOLDS.
C8_Dispersion ==
    y_hat.done =>
        \A r \in DOMAIN y_hat.rows :
           LET row == y_hat.rows[r]
               p == row.preds
           IN  /\ Len(p) = N_FOLDS
               /\ row.k = N_FOLDS
               /\ (\A i, j \in 1..Len(p) : p[i] = p[j]) => row.disp = 0
               /\ (\E i, j \in 1..Len(p) : p[i] # p[j]) => row.disp > 0
               /\ row.mean_sum = p[1] + p[2] + p[3]

\* An evaluation with one record the submodels agree on and one they do not.
C8_Witness ==
    /\ y_hat.done
    /\ \E r \in DOMAIN y_hat.rows : y_hat.rows[r].disp > 0
    /\ \E r \in DOMAIN y_hat.rows :
          /\ y_hat.rows[r].disp = 0
          /\ y_hat.rows[r].preds[1] = MaxPred

\* C9: selector_dim is 0 for a group of one property and the number of its
\* properties otherwise, and every model built for the group (search trials,
\* folds, loaded ensemble) has input dimension N_FEATURES + selector_dim.
C9_InputDims ==
    InGroup =>
        LET np == Cardinality(group.props)
            dim == IF np = 1 THEN N_FEATURES ELSE N_FEATURES + np
        IN  /\ np = 1 => selector_dim = 0
            /\ np # 1 => selector_dim = np
            /\ built_dims \subseteq {dim}
            /\ \A i \in DOMAIN sub_log : sub_log[i].input_dim = dim
            /\ \A s \in ensemble : s.input_dim = dim
            /\ \A i \in DOMAIN fs[group.name].submodels :
                  fs[group.name].submodels[i].input_dim = dim

\* The ensemble of a group of two properties is loaded.
C9_Witness ==
    /\ pc = "eval"
    /\ Cardinality(group.props) = 2
    /\ built_dims = {N_FEATURES + 2}
    /\ Cardinality(ensemble) = N_FOLDS

====
